---------------------------- MODULE Spec2Model ----------------------------
(***************************************************************************)
(* The benchmark scripts of bench/: the timing harness of benchmark.py and *)
(* the five spawn dispatchers.  Each script is a straight-line main thread *)
(* (a list of statements executed in order) plus, for the spawn scripts,   *)
(* the workers the pool runs concurrently with it.                         *)
(***************************************************************************)
EXTENDS Integers, Sequences, FiniteSets, TLC

(* ------------------------------ bounds -------------------------------- *)
\* number of workers submitted (1000 or 100 in the scripts)
NumWorkers == 2
\* iterations of the arithmetic loop (1_000_000 in the scripts)
ArithN == 11
\* os.cpu_count(): processes of multiprocessing.Pool(processes=None)
NumProcs == 2
\* largest millisecond value time.time() * 1000 returns
MaxClock == 1
\* sizes of the other five workloads of benchmark.py
PushN == 3
NestN == 3
ConcatN == 3
FibN == 5
FuncN == 6
\* largest peak tracemalloc.get_traced_memory() reports
MaxPeak == 1

(* ------------------------- program constants -------------------------- *)
\* for i in range(1, 6): five requests per HTTP worker
Attempts == 5

VARIABLES
    script,        \* which script runs
    clock,         \* the wall clock time.time() reads, in milliseconds
    pc,            \* index of the main thread's next statement; 0 = aborted
    loc,           \* the main thread's local variables (name -> value)
    out,           \* the lines printed so far
    trace,         \* history: the statements the main thread has executed
    pool,          \* "none", "open", "closed"
    slots,         \* worker threads / processes the pool holds
    task,          \* per worker id: "new", "queued", "running", "done", "killed", "raised"
    loop,          \* per worker id (0 = main thread): the counting loop's i and sum
    attempt,       \* per worker id: the HTTP worker's loop variable i (0 before the loop)
    w_results,     \* per worker id: the number of entries of the HTTP worker's local
                   \* list results (the worker reads nothing of it but len(results))
    ret,           \* per worker id: the value the worker returned (NoResult = none yet)
    futures,       \* the futures / async results submitted so far, by worker id
    main_results,  \* the results the main thread has collected
    yielded        \* the worker ids whose future as_completed() has yielded

vars == <<script, clock, pc, loc, out, trace, pool, slots, task, loop, attempt,
          w_results, ret, futures, main_results, yielded>>

Workers == 1..NumWorkers
ClockValues == 0..MaxClock

(* --------------------------- the workloads ---------------------------- *)
\* a loop that starts at 0 and stops one short: for i in range(0, n)
LoopIter_from_zero(st) == [i |-> st.i + 1, sum |-> st.sum + (st.i % 10)]

\* one iteration of: for i in range(1, n+1): sum = sum + i % 10
LoopIter(st) == [i |-> st.i + 1, sum |-> st.sum + ((st.i + 1) % 10)]

RECURSIVE ArrAppend(_)
ArrAppend(n) == IF n = 0 THEN << >> ELSE Append(ArrAppend(n - 1), n)
test_array_push == Len(ArrAppend(PushN))

RECURSIVE NestInner(_, _)
NestInner(i, j) == IF j = 0 THEN 0 ELSE NestInner(i, j - 1) + i * j
RECURSIVE NestOuter(_)
NestOuter(i) == IF i = 0 THEN 0 ELSE NestOuter(i - 1) + NestInner(i, NestN)
test_nested_loops == NestOuter(NestN)

RECURSIVE StrConcat(_)
StrConcat(n) == IF n = 0 THEN << >> ELSE StrConcat(n - 1) \o <<"x">>
test_string_concat == Len(StrConcat(ConcatN))

RECURSIVE fib(_)
fib(n) == IF n <= 1 THEN n ELSE fib(n - 1) + fib(n - 2)
test_recursion == fib(FibN)

test_functional ==
    LET nums == ArrAppend(FuncN)
        filtered == SelectSeq(nums, LAMBDA x : x % 2 = 0)
        mapped == [k \in 1..Len(filtered) |-> filtered[k] * 2]
    IN  Len(mapped)

\* the value fn() returns, for the five workloads run in one step
FnValue(fn) ==
    CASE fn = "test_array_push" -> test_array_push
      [] fn = "test_nested_loops" -> test_nested_loops
      [] fn = "test_string_concat" -> test_string_concat
      [] fn = "test_recursion" -> test_recursion
      [] fn = "test_functional" -> test_functional

(* ----------------------- the scripts' statements ---------------------- *)
St(op, a, b) == [op |-> op, a |-> a, b |-> b]

\* a harness that runs the workload once to warm up and once more to time it
benchmark_warmup(name, fn) ==
    << St("call", fn, "result"),
       St("time", "start", ""),
       St("call", fn, "result"),
       St("elapsed", "elapsed", "start"),
       St("print", name, "elapsed"),
       St("return", "result", "") >>

\* def benchmark(name, fn)
benchmark(name, fn) ==
    << St("time", "start", ""),
       St("call", fn, "result"),
       St("elapsed", "elapsed", "start"),
       St("print", name, "elapsed"),
       St("return", "result", "") >>

benchmark_main ==
    << St("header", "=== Python Benchmarks ===", "") >>
    \o benchmark("Arithmetic (1M ops)", "test_arithmetic")
    \o benchmark("Array push (100k)", "test_array_push")
    \o benchmark("Nested loops (100x100)", "test_nested_loops")
    \o benchmark("String concat (10k)", "test_string_concat")
    \o benchmark("Recursion fib(25)", "test_recursion")
    \o benchmark("Functional chain", "test_functional")

\* spawn_benchmark.py main()
spawn_main ==
    << St("header", "=== Python Spawn Benchmark ===", ""),
       St("time", "start", ""),
       St("pool_enter", "process", ""),
       St("starmap", "", ""),
       St("pool_exit", "process", ""),
       St("elapsed", "spawn_time", "start"),
       St("print", "Spawn and complete 1000 workers", "spawn_time"),
       St("print_len", "Completed workers", "results") >>

\* spawn_benchmark_spawn_only.py main()
spawn_only_main ==
    << St("header", "=== Python Spawn Benchmark (spawn time only) ===", ""),
       St("time", "start", ""),
       St("pool_enter", "process", ""),
       St("apply_async", "", ""),
       St("pool_exit", "process", ""),
       St("elapsed", "spawn_time", "start"),
       St("print", "Submit 1000 worker tasks", "spawn_time"),
       St("print_len", "Submitted tasks", "async_results") >>

\* spawn_benchmark_fetch.py main()
fetch_main ==
    << St("header", "=== Python I/O-Bound Benchmark ===", ""),
       St("header", "Each worker makes 5 HTTP requests to httpbin.org/delay/1", ""),
       St("header", "", ""),
       St("time", "start", ""),
       St("time", "spawn_start", ""),
       St("pool_enter", "thread", ""),
       St("submit", "", ""),
       St("elapsed", "spawn_time", "spawn_start"),
       St("time", "wait_start", ""),
       St("as_completed", "list", ""),
       St("elapsed", "wait_time", "wait_start"),
       St("pool_exit", "thread", ""),
       St("elapsed", "total_time", "start"),
       St("print", "Spawn 1000 workers", "spawn_time"),
       St("print", "Wait for completion", "wait_time"),
       St("print", "Total time", "total_time"),
       St("print_avg", "Average per worker", "wait_time") >>

\* spawn_benchmark_fetch_lite.py main()
fetch_lite_main ==
    << St("header", "=== Python I/O-Bound Benchmark (100 workers) ===", ""),
       St("time", "start", ""),
       St("pool_enter", "thread", ""),
       St("time", "spawn_start", ""),
       St("submit", "", ""),
       St("elapsed", "spawn_time", "spawn_start"),
       St("time", "wait_start", ""),
       St("as_completed", "list", ""),
       St("elapsed", "wait_time", "wait_start"),
       St("pool_exit", "thread", ""),
       St("elapsed", "total_time", "start"),
       St("print", "Spawn 100 workers", "spawn_time"),
       St("print", "Wait for completion", "wait_time"),
       St("print", "Total time", "total_time") >>

\* spawn_benchmark_fetch_lite_memory.py main()
fetch_lite_memory_main ==
    << St("header", "=== Python I/O-Bound Benchmark (100 workers) ===", ""),
       St("mem_start", "", ""),
       St("time", "start", ""),
       St("mem_init", "peak_memory", ""),
       St("pool_enter", "thread", ""),
       St("time", "spawn_start", ""),
       St("submit", "", ""),
       St("elapsed", "spawn_time", "spawn_start"),
       St("time", "wait_start", ""),
       St("as_completed", "mem", ""),
       St("elapsed", "wait_time", "wait_start"),
       St("pool_exit", "thread", ""),
       St("elapsed", "total_time", "start"),
       St("mem_peak", "peak_memory", ""),
       St("mem_stop", "", ""),
       St("print", "Spawn 100 workers", "spawn_time"),
       St("print", "Wait for completion", "wait_time"),
       St("print", "Total time", "total_time"),
       St("print_mb", "Peak memory", "peak_memory") >>

CpuScripts == {"spawn", "spawn_only"}
HttpScripts == {"fetch", "fetch_lite", "fetch_lite_memory"}
Scripts == {"benchmark"} \cup CpuScripts \cup HttpScripts

Prog(s) ==
    CASE s = "benchmark" -> benchmark_main
      [] s = "spawn" -> spawn_main
      [] s = "spawn_only" -> spawn_only_main
      [] s = "fetch" -> fetch_main
      [] s = "fetch_lite" -> fetch_lite_main
      [] s = "fetch_lite_memory" -> fetch_lite_memory_main

Stmt == IF pc \in 1..Len(Prog(script)) THEN Prog(script)[pc] ELSE St("end", "", "")
Finished == pc = Len(Prog(script)) + 1
Aborted == pc = 0

Ev(op, a) == [op |-> op, a |-> a]
\* a printed line: its label and the number formatted into it (value / div)
Line(label, value, div) == [label |-> label, value |-> value, div |-> div]
Assign(name, v) == [x \in DOMAIN loc \cup {name} |-> IF x = name THEN v ELSE loc[x]]
NoFrame == [x \in {} |-> 0]
NoResult == [worker_id |-> 0]
Max(a, b) == IF a >= b THEN a ELSE b
Active == {w \in Workers : task[w] \in {"queued", "running"}}
Running == {w \in Workers : task[w] = "running"}

(* ------------------------------- Init --------------------------------- *)
Init ==
    /\ script \in Scripts
    /\ clock = 0
    /\ pc = 1
    /\ loc = NoFrame
    /\ out = << >>
    /\ trace = << >>
    /\ pool = "none"
    /\ slots = 0
    /\ task = [w \in Workers |-> "new"]
    /\ loop = [p \in 0..NumWorkers |-> [i |-> 0, sum |-> 0]]
    /\ attempt = [w \in Workers |-> 0]
    /\ w_results = [w \in Workers |-> 0]
    /\ ret = [w \in Workers |-> NoResult]
    /\ futures = << >>
    /\ main_results = << >>
    /\ yielded = {}

workerVars == <<task, loop, attempt, w_results, ret>>
poolVars == <<pool, slots, futures, main_results, yielded>>

(* ------------------------ main-thread statements ---------------------- *)
\* print("=== ... ===")
PrintHeader ==
    /\ Stmt.op = "header"
    /\ out' = Append(out, Line(Stmt.a, 0, 1))
    /\ trace' = Append(trace, Ev("header", ""))
    /\ pc' = pc + 1
    /\ UNCHANGED <<script, clock, loc, workerVars, poolVars>>

\* x = time.time() * 1000
TimeSample ==
    /\ Stmt.op = "time"
    /\ loc' = Assign(Stmt.a, clock)
    /\ trace' = Append(trace, Ev("time", Stmt.a))
    /\ pc' = pc + 1
    /\ UNCHANGED <<script, clock, out, workerVars, poolVars>>

\* x = time.time() * 1000 - y
Elapsed ==
    /\ Stmt.op = "elapsed"
    /\ loc' = Assign(Stmt.a, clock - loc[Stmt.b])
    /\ trace' = Append(trace, Ev("elapsed", Stmt.a))
    /\ pc' = pc + 1
    /\ UNCHANGED <<script, clock, out, workerVars, poolVars>>

\* result = fn(), fn = test_arithmetic: the loop, one iteration per step
CallArithmetic ==
    /\ Stmt.op = "call" /\ Stmt.a = "test_arithmetic"
    /\ IF loop[0].i < ArithN
       THEN /\ loop' = [loop EXCEPT ![0] = LoopIter(loop[0])]
            /\ UNCHANGED <<loc, trace, pc>>
       ELSE /\ loc' = Assign(Stmt.b, loop[0].sum)
            /\ loop' = [loop EXCEPT ![0] = [i |-> 0, sum |-> 0]]
            /\ trace' = Append(trace, Ev("call", Stmt.a))
            /\ pc' = pc + 1
    /\ UNCHANGED <<script, clock, out, task, attempt, w_results, ret, poolVars>>

\* result = fn(), the other workloads
CallWorkload ==
    /\ Stmt.op = "call" /\ Stmt.a # "test_arithmetic"
    /\ loc' = Assign(Stmt.b, FnValue(Stmt.a))
    /\ trace' = Append(trace, Ev("call", Stmt.a))
    /\ pc' = pc + 1
    /\ UNCHANGED <<script, clock, out, workerVars, poolVars>>

\* print(f"{label}: {value:.1f}ms")
PrintLine ==
    /\ Stmt.op = "print"
    /\ out' = Append(out, Line(Stmt.a, loc[Stmt.b], 1))
    /\ trace' = Append(trace, Ev("print", Stmt.a))
    /\ pc' = pc + 1
    /\ UNCHANGED <<script, clock, loc, workerVars, poolVars>>

\* return result: the frame of benchmark() is dropped, the caller discards the value
Return ==
    /\ Stmt.op = "return"
    /\ trace' = Append(trace, Ev("return", ToString(loc[Stmt.a])))
    /\ loc' = NoFrame
    /\ pc' = pc + 1
    /\ UNCHANGED <<script, clock, out, workerVars, poolVars>>

\* print(f"Completed {len(results)} workers") / print(f"Submitted {len(async_results)} tasks")
PrintLen ==
    /\ Stmt.op = "print_len"
    /\ out' = Append(out, Line(Stmt.a,
                 IF Stmt.b = "results" THEN Len(main_results) ELSE Len(futures), 1))
    /\ trace' = Append(trace, Ev("print", Stmt.a))
    /\ pc' = pc + 1
    /\ UNCHANGED <<script, clock, loc, workerVars, poolVars>>

\* print(f"Average per worker: {wait_time/1000:.3f}ms")
PrintAvg ==
    /\ Stmt.op = "print_avg"
    /\ out' = Append(out, Line(Stmt.a, loc[Stmt.b], NumWorkers))
    /\ trace' = Append(trace, Ev("print", Stmt.a))
    /\ pc' = pc + 1
    /\ UNCHANGED <<script, clock, loc, workerVars, poolVars>>

\* print(f"Peak memory: {peak_memory / 1024 / 1024:.1f} MB")
PrintMb ==
    /\ Stmt.op = "print_mb"
    /\ out' = Append(out, Line(Stmt.a, loc[Stmt.b], 1024 * 1024))
    /\ trace' = Append(trace, Ev("print", Stmt.a))
    /\ pc' = pc + 1
    /\ UNCHANGED <<script, clock, loc, workerVars, poolVars>>

\* tracemalloc.start() / tracemalloc.stop()
Tracemalloc ==
    /\ Stmt.op \in {"mem_start", "mem_stop"}
    /\ trace' = Append(trace, Ev(Stmt.op, ""))
    /\ pc' = pc + 1
    /\ UNCHANGED <<script, clock, loc, out, workerVars, poolVars>>

\* peak_memory = 0
MemInit ==
    /\ Stmt.op = "mem_init"
    /\ loc' = Assign(Stmt.a, 0)
    /\ trace' = Append(trace, Ev("mem_init", Stmt.a))
    /\ pc' = pc + 1
    /\ UNCHANGED <<script, clock, out, workerVars, poolVars>>

\* current, peak = tracemalloc.get_traced_memory(); peak_memory = max(peak_memory, peak)
\* (the traced peak never decreases, so it is at least every earlier sample)
TracedPeak(name, p) == Assign(name, Max(loc[name], p))

MemPeak ==
    /\ Stmt.op = "mem_peak"
    /\ \E p \in loc[Stmt.a]..MaxPeak : loc' = TracedPeak(Stmt.a, p)
    /\ trace' = Append(trace, Ev("mem_peak", Stmt.a))
    /\ pc' = pc + 1
    /\ UNCHANGED <<script, clock, out, workerVars, poolVars>>

(* ------------------------------ the pool ------------------------------ *)
\* with multiprocessing.Pool(processes=None) as pool:  the pool starts
\* os.cpu_count() processes at once
\* with ThreadPoolExecutor(max_workers=N) as executor: threads start on submit
PoolEnter ==
    /\ Stmt.op = "pool_enter"
    /\ pool' = "open"
    /\ slots' = IF Stmt.a = "process" THEN NumProcs ELSE 0
    /\ trace' = Append(trace, Ev("pool_enter", Stmt.a))
    /\ pc' = pc + 1
    /\ UNCHANGED <<script, clock, loc, out, workerVars, futures, main_results, yielded>>

\* futures = [executor.submit(worker, i) for i in range(1, N + 1)], one submit per
\* step: the work item is queued, and a thread is started for it unless one is idle
Submit ==
    /\ Stmt.op = "submit"
    /\ LET i == Len(futures) + 1
       IN  /\ task' = [task EXCEPT ![i] = "queued"]
           /\ futures' = Append(futures, i)
           /\ slots' = IF slots - Cardinality(Active) > 0 \/ slots >= NumWorkers
                       THEN slots ELSE slots + 1
           /\ pc' = IF i = NumWorkers THEN pc + 1 ELSE pc
    /\ trace' = Append(trace, Ev("submit", ""))
    /\ UNCHANGED <<script, clock, loc, out, pool, loop, attempt, w_results, ret,
                   main_results, yielded>>

\* for i in range(1, N + 1): async_results.append(pool.apply_async(worker, (i,)))
ApplyAsync ==
    /\ Stmt.op = "apply_async"
    /\ LET i == Len(futures) + 1
       IN  /\ task' = [task EXCEPT ![i] = "queued"]
           /\ futures' = Append(futures, i)
           /\ pc' = IF i = NumWorkers THEN pc + 1 ELSE pc
    /\ trace' = Append(trace, Ev("submit", ""))
    /\ UNCHANGED <<script, clock, loc, out, pool, slots, loop, attempt, w_results, ret,
                   main_results, yielded>>

\* results = pool.starmap(worker, [(i,) for i in range(1, N + 1)]): every task is
\* queued, then the call blocks until all are done and returns the results in
\* the order of the arguments
StarmapResults == [k \in 1..Len(futures) |-> ret[futures[k]]]

\* a map that returns as soon as the first result is in
StarmapReady_first == \E w \in Workers : task[w] = "done"

\* starmap returns when every task has completed
StarmapReady == \A w \in Workers : task[w] = "done"

Starmap ==
    /\ Stmt.op = "starmap"
    /\ IF futures = << >>
       THEN /\ task' = [w \in Workers |-> "queued"]
            /\ futures' = [k \in 1..NumWorkers |-> k]
            /\ trace' = Append(trace, Ev("submit", ""))
            /\ UNCHANGED <<main_results, pc>>
       ELSE /\ StarmapReady
            /\ main_results' = StarmapResults
            /\ trace' = Append(trace, Ev("wait", ""))
            /\ pc' = pc + 1
            /\ UNCHANGED <<task, futures>>
    /\ UNCHANGED <<script, clock, loc, out, pool, slots, loop, attempt, w_results, ret, yielded>>

\* an iterator that forgets which futures it has already yielded
Completed_again == {w \in Workers : task[w] \in {"done", "raised"}}

\* the futures as_completed(futures) can yield next: finished and not yet yielded
Completed == {w \in Workers : task[w] \in {"done", "raised"} /\ w \notin yielded}

\* results = [f.result() for f in as_completed(futures)]
\* for future in as_completed(futures): ...peak_memory...; future.result()
\* one future per step; f.result() re-raises what the worker raised
AsCompleted ==
    /\ Stmt.op = "as_completed"
    /\ \E w \in Completed :
        /\ yielded' = yielded \cup {w}
        /\ IF task[w] = "raised"
           THEN /\ pc' = 0
                /\ UNCHANGED <<loc, main_results>>
           ELSE /\ IF Stmt.a = "mem"
                   THEN /\ \E p \in loc["peak_memory"]..MaxPeak :
                               loc' = TracedPeak("peak_memory", p)
                        /\ UNCHANGED main_results
                   ELSE /\ main_results' = Append(main_results, ret[w])
                        /\ UNCHANGED loc
                /\ pc' = IF yielded' = Workers THEN pc + 1 ELSE pc
        /\ trace' = Append(trace, Ev("result", ToString(w)))
    /\ UNCHANGED <<script, clock, out, pool, slots, futures, workerVars>>

\* the slots a pool holds after its with block is left
\* a pool that is only closed to new work: shutdown(wait=False) / close()
SlotsAfterExit_kept(kind) == slots

SlotsAfterExit(kind) == 0

\* whether leaving the with block has to wait for the submitted work
\* a process pool that is closed and joined: close(); join()
ExitWaits_join(kind) == TRUE

ExitWaits(kind) == kind = "thread"

\* leaving the with block.
\* Pool.__exit__ is terminate(): the processes are stopped at once, whatever
\* they are running; queued and running tasks never complete.
\* ThreadPoolExecutor.__exit__ is shutdown(wait=True): it returns when every
\* submitted work item has run and every thread has been joined.
PoolExit ==
    /\ Stmt.op = "pool_exit"
    /\ IF ExitWaits(Stmt.a)
       THEN /\ Active = {}
            /\ UNCHANGED task
       ELSE task' = [w \in Workers |->
                       IF task[w] \in {"queued", "running"} THEN "killed" ELSE task[w]]
    /\ pool' = "closed"
    /\ slots' = SlotsAfterExit(Stmt.a)
    /\ trace' = Append(trace, Ev("pool_exit", Stmt.a))
    /\ pc' = pc + 1
    /\ UNCHANGED <<script, clock, loc, out, loop, attempt, w_results, ret,
                   futures, main_results, yielded>>

(* ----------------------------- the workers ---------------------------- *)
\* a free process / thread of the pool takes a queued task
TaskStart(w) ==
    /\ pool = "open"
    /\ task[w] = "queued"
    /\ Cardinality(Running) < slots
    /\ task' = [task EXCEPT ![w] = "running"]
    /\ UNCHANGED <<script, clock, pc, loc, out, trace, loop, attempt, w_results, ret,
                   poolVars>>

\* worker(worker_id) of spawn_benchmark.py and spawn_benchmark_spawn_only.py:
\* one iteration of the counting loop
CpuIter(w) ==
    /\ script \in CpuScripts
    /\ task[w] = "running"
    /\ loop[w].i < ArithN
    /\ loop' = [loop EXCEPT ![w] = LoopIter(loop[w])]
    /\ UNCHANGED <<script, clock, pc, loc, out, trace, task, attempt, w_results, ret,
                   poolVars>>

\* return {"worker_id": worker_id, "sum": sum}
CpuReturn(w) ==
    /\ script \in CpuScripts
    /\ task[w] = "running"
    /\ loop[w].i = ArithN
    /\ ret' = [ret EXCEPT ![w] = [worker_id |-> w, sum |-> loop[w].sum]]
    /\ task' = [task EXCEPT ![w] = "done"]
    /\ UNCHANGED <<script, clock, pc, loc, out, trace, loop, attempt, w_results,
                   poolVars>>

\* what requests.get(url, timeout=15) can do
Outcomes == {"status_200", "status_other", "timeout", "connection_error"}

\* the body of the HTTP worker's loop for attempt i with the request's outcome:
\* len(results) afterwards.  An exception appends {"attempt", "error"}, a 200
\* response appends {"attempt", "status"}, any other response appends nothing
AttemptBody(results, i, outcome) ==
    IF outcome \in {"timeout", "connection_error"}
    THEN results + 1
    ELSE IF outcome = "status_200"
         THEN results + 1
         ELSE results

\* a worker without the try/except: the exception of a failed request ends it
AfterAttempt_uncaught(w, outcome) ==
    IF outcome \in {"timeout", "connection_error"} THEN "raised" ELSE "running"

\* after an attempt the worker goes on with the loop, whatever the outcome:
\* except Exception catches what requests.get raises
AfterAttempt(w, outcome) == "running"

\* worker(worker_id) of the fetch scripts: one iteration of for i in range(1, 6)
HttpAttempt(w) ==
    /\ script \in HttpScripts
    /\ task[w] = "running"
    /\ attempt[w] < Attempts
    /\ \E outcome \in Outcomes :
        /\ attempt' = [attempt EXCEPT ![w] = attempt[w] + 1]
        /\ w_results' = [w_results EXCEPT
                           ![w] = AttemptBody(w_results[w], attempt[w] + 1, outcome)]
        /\ task' = [task EXCEPT ![w] = AfterAttempt(w, outcome)]
    /\ UNCHANGED <<script, clock, pc, loc, out, trace, loop, ret, poolVars>>

\* return {"worker_id": worker_id, "requests": len(results)}
\* (the list results is the worker's local: it is gone once the worker returns)
HttpReturn(w) ==
    /\ script \in HttpScripts
    /\ task[w] = "running"
    /\ attempt[w] = Attempts
    /\ ret' = [ret EXCEPT ![w] = [worker_id |-> w, requests |-> w_results[w]]]
    /\ w_results' = [w_results EXCEPT ![w] = 0]
    /\ task' = [task EXCEPT ![w] = "done"]
    /\ UNCHANGED <<script, clock, pc, loc, out, trace, loop, attempt, poolVars>>

MainStep ==
    \/ PrintHeader
    \/ TimeSample
    \/ Elapsed
    \/ CallArithmetic
    \/ CallWorkload
    \/ PrintLine
    \/ Return
    \/ PrintLen
    \/ PrintAvg
    \/ PrintMb
    \/ Tracemalloc
    \/ MemInit
    \/ MemPeak
    \/ PoolEnter
    \/ Submit
    \/ ApplyAsync
    \/ Starmap
    \/ AsCompleted
    \/ PoolExit

WorkerStep(w) ==
    \/ TaskStart(w)
    \/ CpuIter(w)
    \/ CpuReturn(w)
    \/ HttpAttempt(w)
    \/ HttpReturn(w)

\* the system clock moves: forward as time passes, backward when it is set back
\* (time.time() is the wall clock, not a monotonic one)
ClockMove ==
    /\ \E t \in ClockValues \ {clock} : clock' = t
    /\ UNCHANGED <<script, pc, loc, out, trace, workerVars, poolVars>>

Next ==
    \/ MainStep
    \/ \E w \in Workers : WorkerStep(w)

\* the scripts under a clock that reads the same at every sample: no statement
\* of any script branches on a clock value, so the order of the statements and
\* the workers' interleavings are those of every run
Spec == Init /\ [][Next]_vars

\* the same scripts with the system clock moving under them
SpecClock == Init /\ [][Next \/ ClockMove]_vars

(* ------------------------------ properties ---------------------------- *)
IsPrefix(s, t) == Len(s) <= Len(t) /\ \A k \in 1..Len(s) : s[k] = t[k]
Executed(op) == \E k \in 1..Len(trace) : trace[k].op = op
\* the main thread is past its statement that waits for the workers
WaitEnded ==
    \E k \in 1..Len(Prog(script)) :
        Prog(script)[k].op \in {"starmap", "as_completed"} /\ pc > k
ResultEvents == SelectSeq(trace, LAMBDA e : e.op = "result")
WorkerNames == {ToString(w) : w \in Workers}

\* C1: in every dispatcher that awaits its workers, when the wait has ended the
\* number of results collected is N and every worker id 1..N has contributed
\* exactly one of them (the memory variant collects by calling future.result()
\* once per yielded future, without keeping the values).
C1_AllResultsCollectedOnce ==
    WaitEnded =>
        IF script = "fetch_lite_memory"
        THEN /\ Len(ResultEvents) = NumWorkers
             /\ \A n \in WorkerNames :
                    Cardinality({k \in 1..Len(ResultEvents) : ResultEvents[k].a = n}) = 1
        ELSE /\ Len(main_results) = NumWorkers
             /\ \A w \in Workers :
                    Cardinality({k \in 1..Len(main_results) :
                                    main_results[k].worker_id = w}) = 1

\* the fetch dispatcher has finished having collected worker 2's result first
C1_Witness ==
    /\ script = "fetch" /\ Finished
    /\ Len(main_results) = NumWorkers
    /\ main_results[1].worker_id = 2

\* C2: every HTTP worker that has returned reports 5 attempts, whatever the
\* outcomes of its 5 requests were.
C2_AttemptCountIsFive ==
    script \in HttpScripts =>
        \A w \in Workers : task[w] = "done" => ret[w].requests = Attempts

\* C3: a failed request does not cascade.  No worker is ended by it (a worker
\* that runs can always take its next step, and a worker that has returned has
\* made all 5 attempts and returned its own result), the main thread never
\* aborts and the run never stops short of its final report; and a step of one
\* worker leaves every other worker's state and result as they were.
C3_WorkerSurvives ==
    script \in HttpScripts =>
        /\ ~Aborted
        /\ \A w \in Workers :
              /\ task[w] \notin {"raised", "killed"}
              /\ task[w] = "running" => ENABLED (HttpAttempt(w) \/ HttpReturn(w))
              /\ task[w] = "done" => attempt[w] = Attempts /\ ret[w].worker_id = w
        /\ Finished \/ ENABLED Next

C3_SiblingsUntouched ==
    \A w \in Workers :
        attempt'[w] # attempt[w] =>
            \A v \in Workers \ {w} :
                /\ task'[v] = task[v]
                /\ attempt'[v] = attempt[v]
                /\ w_results'[v] = w_results[v]
                /\ ret'[v] = ret[v]

C3_NoCascade == []C3_WorkerSurvives /\ [][C3_SiblingsUntouched]_vars

\* a fetch run has reached its end although a request of worker 1 failed
\* (it reports fewer than 5 entries) while worker 2 reports all 5
C3_Witness ==
    /\ script \in HttpScripts /\ Finished
    /\ ret[1].requests < Attempts
    /\ ret[2].requests = Attempts

\* C4: in the spawn-only script the main thread is never blocked: whatever the
\* workers are doing, its next statement can be executed, up to the last
\* report line, and it never reads a worker's result.
C4_SpawnOnlyNeverWaits ==
    script = "spawn_only" =>
        /\ Finished \/ ENABLED MainStep
        /\ main_results = << >> /\ yielded = {}

\* the spawn-only script has printed its report and no worker body has finished
C4_Witness ==
    /\ script = "spawn_only" /\ Finished
    /\ Len(futures) = NumWorkers
    /\ \A w \in Workers : task[w] = "killed"
    /\ \E k \in 1..Len(out) : out[k].label = "Submit 1000 worker tasks"

\* the variable holding the completion time a script reports
CompletionVar ==
    CASE script = "spawn" -> "spawn_time"
      [] script \in HttpScripts -> "wait_time"
      [] OTHER -> "none"

\* C5: in every dispatcher that reports a completion time, the completion time
\* is computed (and so printed) only when every one of the N submitted workers
\* has completed.
C5_CompletionAfterAllWorkers ==
    CompletionVar \in DOMAIN loc =>
        \A w \in Workers : task[w] = "done"

\* the process-pool dispatcher has computed its completion time
C5_Witness ==
    /\ script = "spawn"
    /\ "spawn_time" \in DOMAIN loc
    /\ \A w \in Workers : task[w] = "done"

\* where the reported submit interval starts
SubmitStartVar == IF script = "spawn_only" THEN "start" ELSE "spawn_start"

\* C6: in the fetch dispatchers and the spawn-only dispatcher, between the clock
\* sample that starts the reported submit interval and the one that ends it the
\* main thread does nothing but the N submit calls.
C6_SubmitIntervalIsSubmitsOnly ==
    script \in HttpScripts \cup {"spawn_only"} =>
        \A s, e \in 1..Len(trace) :
            (/\ trace[s] = Ev("time", SubmitStartVar)
             /\ trace[e] = Ev("elapsed", "spawn_time")) =>
                /\ e - s - 1 = NumWorkers
                /\ \A k \in (s + 1)..(e - 1) : trace[k].op = "submit"

\* C7: in every spawn script, once the with block is left the pool is shut down
\* and holds no worker slot: at every report line printed, and at the end of
\* the run, the pool is closed with no thread or process left.
C7_SlotsReleased ==
    script \in CpuScripts \cup HttpScripts =>
        /\ (Executed("print") \/ Finished) => pool = "closed" /\ slots = 0
        /\ Executed("pool_exit") => slots = 0

\* the spawn-only script has ended, its processes stopped with work unfinished
C7_Witness ==
    /\ script = "spawn_only" /\ Finished
    /\ \E w \in Workers : task[w] = "killed"
    /\ slots = 0

\* the sum of i mod 10 for i in 1..k, in closed form
ClosedForm(k) == 45 * (k \div 10) + ((k % 10) * ((k % 10) + 1)) \div 2

\* the six calls of benchmark.py: label, workload, the value the workload returns
BenchCalls ==
    << <<"Arithmetic (1M ops)", "test_arithmetic", ClosedForm(ArithN)>>,
       <<"Array push (100k)", "test_array_push", PushN>>,
       <<"Nested loops (100x100)", "test_nested_loops",
         ((NestN * (NestN + 1)) \div 2) * ((NestN * (NestN + 1)) \div 2)>>,
       <<"String concat (10k)", "test_string_concat", ConcatN>>,
       <<"Recursion fib(25)", "test_recursion", test_recursion>>,
       <<"Functional chain", "test_functional", FuncN \div 2>> >>

ExpectedCall(c) ==
    << Ev("time", "start"), Ev("call", c[2]), Ev("elapsed", "elapsed"),
       Ev("print", c[1]), Ev("return", ToString(c[3])) >>

RECURSIVE ExpectedCalls(_)
ExpectedCalls(n) ==
    IF n = 0 THEN << >> ELSE ExpectedCalls(n - 1) \o ExpectedCall(BenchCalls[n])

ExpectedTrace == << Ev("header", "") >> \o ExpectedCalls(Len(BenchCalls))

\* C8: each call of benchmark(name, fn) samples the clock, runs fn once, samples
\* the clock again, prints one line for the label and returns fn's value; the
\* six calls of the script happen in their fixed order and print six lines.
C8_HarnessRunsOnceInOrder ==
    script = "benchmark" =>
        /\ IsPrefix(trace, ExpectedTrace)
        /\ Finished =>
              /\ trace = ExpectedTrace
              /\ Len(out) = 1 + Len(BenchCalls)
              /\ \A c \in 1..Len(BenchCalls) : out[c + 1].label = BenchCalls[c][1]

\* benchmark.py has run to its end
C8_Witness ==
    /\ script = "benchmark" /\ Finished
    /\ Len(SelectSeq(trace, LAMBDA e : e.op = "call")) = 6
    /\ Len(out) = 7

ElapsedVars == {"elapsed", "spawn_time", "wait_time", "total_time"}

\* C9: every elapsed time computed, and every elapsed time printed, is >= 0.
C9_ElapsedNonNegative ==
    /\ \A x \in DOMAIN loc \cap ElapsedVars : loc[x] >= 0
    /\ \A k \in 1..Len(out) : out[k].value >= 0

\* C10: after the iteration for i = k the accumulator of the arithmetic loop is
\* the sum of i mod 10 over 1..k, in test_arithmetic and in every CPU worker;
\* what they return is that sum for the whole range, the same for every worker.
C10_ArithmeticIsClosedForm ==
    /\ \A p \in 0..NumWorkers : loop[p].sum = ClosedForm(loop[p].i)
    /\ script \in CpuScripts =>
          \A w \in Workers :
              task[w] = "done" => ret[w] = [worker_id |-> w, sum |-> ClosedForm(ArithN)]
    /\ script = "benchmark" /\ Executed("return") =>
          trace[6] = Ev("return", ToString(ClosedForm(ArithN)))

\* every CPU worker of the process-pool dispatcher has run its loop past a
\* multiple of 10 and returned its sum
C10_Witness ==
    /\ script = "spawn" /\ Finished
    /\ ArithN > 10
    /\ \A w \in Workers : task[w] = "done" /\ ret[w].sum = ClosedForm(ArithN)
=============================================================================
